---- MODULE Spec2Model ----
(***************************************************************************)
(* DefaultTransceiverController of amazon-chime-sdk-js: the mapping of the *)
(* desired remote video streams onto the transceivers of one peer          *)
(* connection.                                                             *)
(*                                                                         *)
(* A transceiver is identified by its position in peer.getTransceivers()   *)
(* (creation order); that position is also its mid.                        *)
(***************************************************************************)
EXTENDS Integers, Sequences, FiniteSets, TLC

\* ---------------------------------------------------------------- bounds
MaxStreamId == 2
MaxTransceivers == 4
MaxVideoSlots == 2
MaxDesired == 2
MaxFifoStreamId == 3
MaxFifoDesired == 3
MaxLayers == 2
\* promises of setVideoInput outstanding at once, beside the other operations
MaxPending == 1
\* promises of setVideoInput and setAudioInput outstanding at once, among
\* the local input operations alone
MaxInputPending == 2
MaxBitrateKbps == 2

StreamIds == 1..MaxStreamId
Mids == 1..MaxTransceivers

\* streamIdForTrack's "no such track" answer (undefined)
Undefined == -1

Directions == {"inactive", "recvonly", "sendrecv"}

VARIABLES
  peer,                   \* this.peer !== null
  unifiedPlan,            \* browserBehavior.requiresUnifiedPlan()
  getTransceivers,        \* typeof peer.getTransceivers !== 'undefined', of any peer set
  mediaStream,            \* typeof MediaStream !== 'undefined'
  transceivers,           \* peer.getTransceivers(): Seq of [kind, direction]
  localCameraTransceiver, \* _localCameraTransceiver: a mid, or 0 for null
  localAudioTransceiver,  \* _localAudioTransceiver: a mid, or 0 for null
  defaultMediaStream,     \* defaultMediaStream !== null
  videoSubscriptions,     \* this.videoSubscriptions
  streamIdToTransceiver,  \* Map in insertion order: Seq of [k, v]
  call,                   \* the call that has just returned, or NoCall
  pending,                \* the promises of setVideoInput and setAudioInput not settled yet
  largestDesired,         \* history: the largest desired set handed in so far
  activation,             \* the updateVideoTransceivers call in progress, or NoActivation
  usePriorityBasedDownlinkPolicy, \* demo app: this.usePriorityBasedDownlinkPolicy
  videoPriorityBasedPolicyConfig, \* demo app: the preset this.videoPriorityBasedPolicyConfig is
  serverSideNetworkAdaption       \* demo app: each preset's serverSideNetworkAdaption

\* the fields of the demo application
appVars ==
  <<usePriorityBasedDownlinkPolicy, videoPriorityBasedPolicyConfig,
    serverSideNetworkAdaption>>

vars == <<peer, unifiedPlan, getTransceivers, mediaStream,
          transceivers, localCameraTransceiver,
          localAudioTransceiver, defaultMediaStream, videoSubscriptions,
          streamIdToTransceiver, call, largestDesired, pending, activation, appVars>>

\* ------------------------------------------------------------ collections
Range(s) == {s[i] : i \in 1..Len(s)}

\* VideoStreamIdSet: an ordered collection without duplicates
RECURSIVE SeqsUpTo(_)
SeqsUpTo(n) ==
  IF n = 0 THEN {<<>>}
  ELSE LET shorter == SeqsUpTo(n - 1) IN
       shorter \cup {Append(s, x) : s \in {q \in shorter : Len(q) = n - 1}, x \in StreamIds}

VideoStreamIdSets ==
  {s \in SeqsUpTo(MaxDesired) : \A i, j \in 1..Len(s) : i # j => s[i] # s[j]}

\* VideoStreamIdSet.array()
SetArray(s) == s

\* VideoStreamIdSet.clone()
SetClone(s) == s

\* Array.prototype.splice(index, 1), index counted from 1
Splice(s, i) == SubSeq(s, 1, i - 1) \o SubSeq(s, i + 1, Len(s))

\* an array grown to length n; the new elements are holes (undefined)
RECURSIVE Pad(_, _)
Pad(s, n) == IF Len(s) >= n THEN s ELSE Pad(Append(s, Undefined), n)

\* this.videoSubscriptions[n] = v, positions counted from 1 (array index n-1)
ArraySet(s, pos, v) ==
  IF pos <= Len(s) THEN [s EXCEPT ![pos] = v]
  ELSE Append(Pad(s, pos - 1), v)

\* Map.prototype.delete(key)
MapDelete(m, key) == SelectSeq(m, LAMBDA e : e.k # key)

\* Map.prototype.set(key, value): an existing key keeps its place
MapSet(m, key, value) ==
  IF \E i \in 1..Len(m) : m[i].k = key
  THEN [m EXCEPT ![CHOOSE i \in 1..Len(m) : m[i].k = key] = [k |-> key, v |-> value]]
  ELSE Append(m, [k |-> key, v |-> value])

MapHas(m, key) == \E i \in 1..Len(m) : m[i].k = key

MapGet(m, key) == (CHOOSE i \in 1..Len(m) : m[i].k = key)

MapKeys(m) == {m[i].k : i \in 1..Len(m)}

MapValues(m) == {m[i].v : i \in 1..Len(m)}

\* ------------------------------------------------------------ stream index
\* VideoStreamIndex.StreamIdsInSameGroup: groupOf gives each stream its group
GroupMaps ==
  {g \in [StreamIds -> StreamIds] : \A s \in StreamIds : g[s] <= s /\ g[g[s]] = g[s]}

StreamIdsInSameGroup(groupOf, a, b) == groupOf[a] = groupOf[b]

\* -------------------------------------------------------------- controller
\* useTransceivers that asks only for a peer, not for unified plan
useTransceivers_PeerOnly == peer

\* useTransceivers(): a peer is set, the browser requires unified plan and
\* the peer has getTransceivers
useTransceivers == peer /\ unifiedPlan /\ getTransceivers

transceiverIsVideo(t) == t.kind = "video"

\* the filter keeping every video transceiver, the local camera included
RECURSIVE FilterVideo_KeepsCamera(_, _, _)
FilterVideo_KeepsCamera(trs, camera, i) ==
  IF i > Len(trs) THEN <<>>
  ELSE IF transceiverIsVideo(trs[i])
       THEN <<i>> \o FilterVideo_KeepsCamera(trs, camera, i + 1)
       ELSE FilterVideo_KeepsCamera(trs, camera, i + 1)

\* the filter of updateTransceivers: mids of the video transceivers other than the camera
RECURSIVE FilterVideo(_, _, _)
FilterVideo(trs, camera, i) ==
  IF i > Len(trs) THEN <<>>
  ELSE IF i # camera /\ transceiverIsVideo(trs[i])
       THEN <<i>> \o FilterVideo(trs, camera, i + 1)
       ELSE FilterVideo(trs, camera, i + 1)

\* the filter running over the active transceivers only
VideoSlots_ActiveOnly(trs, camera) ==
  SelectSeq(FilterVideo(trs, camera, 1), LAMBDA t : trs[t].direction # "inactive")

VideoSlots(trs, camera) == FilterVideo(trs, camera, 1)

\* transceiver.direction = d; an assignment that changes the value is logged
SetDirection(st, t, d) ==
  [st EXCEPT !.trs[t].direction = d,
             !.changes = IF st.trs[t].direction # d THEN @ \cup {<<t, d>>} ELSE @]

\* ScanRemaining recording the resolved stream id of the slot instead of the
\* desired stream id it matched
RECURSIVE ScanRemaining_RecordsResolved(_, _, _, _, _, _)
ScanRemaining_RecordsResolved(st, t, n, streamId, groupOf, i) ==
  IF i > Len(st.remaining) THEN st
  ELSE LET recvStreamId == st.remaining[i] IN
       IF StreamIdsInSameGroup(groupOf, streamId, recvStreamId)
       THEN LET s1 == SetDirection(st, t, "recvonly") IN
            [s1 EXCEPT !.subs = ArraySet(@, n + 1, streamId),
                       !.map = MapSet(MapDelete(@, streamId), recvStreamId, t),
                       !.remaining = Splice(@, i)]
       ELSE ScanRemaining_RecordsResolved(
              IF st.subs[n + 1] = 0 THEN SetDirection(st, t, "inactive") ELSE st,
              t, n, streamId, groupOf, i + 1)

\* ScanRemaining rebinding the slot to the last entry of videosRemaining in
\* the group of its stream instead of the first
ScanRemaining_LastMatch(st, t, n, streamId, groupOf, i) ==
  LET matching == {k \in i..Len(st.remaining) :
                     StreamIdsInSameGroup(groupOf, streamId, st.remaining[k])} IN
  IF matching = {}
  THEN IF i <= Len(st.remaining) /\ st.subs[n + 1] = 0
       THEN SetDirection(st, t, "inactive")
       ELSE st
  ELSE LET k == CHOOSE k \in matching : \A x \in matching : x <= k
           s1 == SetDirection(st, t, "recvonly") IN
       [s1 EXCEPT !.subs = ArraySet(@, n + 1, st.remaining[k]),
                  !.map = MapSet(MapDelete(@, streamId), st.remaining[k], t),
                  !.remaining = Splice(@, k)]

\* the loop over videosRemaining.entries() for an active transceiver t whose
\* mid resolves to streamId; n is the index in videoSubscriptions, i the
\* position in videosRemaining
RECURSIVE ScanRemaining(_, _, _, _, _, _)
ScanRemaining(st, t, n, streamId, groupOf, i) ==
  IF i > Len(st.remaining) THEN st
  ELSE LET recvStreamId == st.remaining[i] IN
       IF StreamIdsInSameGroup(groupOf, streamId, recvStreamId)
       THEN LET s1 == SetDirection(st, t, "recvonly") IN
            [s1 EXCEPT !.subs = ArraySet(@, n + 1, recvStreamId),
                       !.map = MapSet(MapDelete(@, streamId), recvStreamId, t),
                       !.remaining = Splice(@, i)]
       ELSE ScanRemaining(
              IF st.subs[n + 1] = 0 THEN SetDirection(st, t, "inactive") ELSE st,
              t, n, streamId, groupOf, i + 1)

\* UpdateOneTransceiver filling an inactive slot with videosRemaining[0]
\* without removing it from videosRemaining
UpdateOneTransceiver_NoShift(st, t, n, sft, groupOf) ==
  LET s0 == [st EXCEPT !.subs = ArraySet(@, n + 1, 0)] IN
  IF s0.trs[t].direction # "inactive"
  THEN LET streamId == sft[t] IN
       IF streamId # Undefined
       THEN ScanRemaining(s0, t, n, streamId, groupOf, 1)
       ELSE s0
  ELSE IF s0.trs[t].direction = "inactive" /\ Len(s0.remaining) > 0
  THEN LET streamId == Head(s0.remaining)
           s1 == SetDirection(s0, t, "recvonly") IN
       [s1 EXCEPT !.subs = ArraySet(@, n + 1, streamId),
                  !.map = MapSet(@, streamId, t)]
  ELSE IF Len(s0.remaining) = 0
  THEN LET s1 == SetDirection(s0, t, "inactive") IN
       [s1 EXCEPT !.map = SelectSeq(@, LAMBDA e : e.v # t)]
  ELSE s0

\* UpdateOneTransceiver filling an inactive slot with the last entry of
\* videosRemaining (pop) instead of the first (shift)
UpdateOneTransceiver_Pop(st, t, n, sft, groupOf) ==
  LET s0 == [st EXCEPT !.subs = ArraySet(@, n + 1, 0)] IN
  IF s0.trs[t].direction # "inactive"
  THEN LET streamId == sft[t] IN
       IF streamId # Undefined
       THEN ScanRemaining(s0, t, n, streamId, groupOf, 1)
       ELSE s0
  ELSE IF s0.trs[t].direction = "inactive" /\ Len(s0.remaining) > 0
  THEN LET streamId == s0.remaining[Len(s0.remaining)]
           s1 == SetDirection(s0, t, "recvonly") IN
       [s1 EXCEPT !.remaining = SubSeq(@, 1, Len(@) - 1),
                  !.subs = ArraySet(@, n + 1, streamId),
                  !.map = MapSet(@, streamId, t)]
  ELSE IF Len(s0.remaining) = 0
  THEN LET s1 == SetDirection(s0, t, "inactive") IN
       [s1 EXCEPT !.map = SelectSeq(@, LAMBDA e : e.v # t)]
  ELSE s0

\* one iteration of "for (const transceiver of transceivers)"
UpdateOneTransceiver(st, t, n, sft, groupOf) ==
  LET s0 == [st EXCEPT !.subs = ArraySet(@, n + 1, 0)] IN
  IF s0.trs[t].direction # "inactive"
  THEN LET streamId == sft[t] IN
       IF streamId # Undefined
       THEN ScanRemaining(s0, t, n, streamId, groupOf, 1)
       ELSE s0
  ELSE IF s0.trs[t].direction = "inactive" /\ Len(s0.remaining) > 0
  THEN LET streamId == Head(s0.remaining)
           s1 == SetDirection(s0, t, "recvonly") IN
       [s1 EXCEPT !.remaining = Tail(@),
                  !.subs = ArraySet(@, n + 1, streamId),
                  !.map = MapSet(@, streamId, t)]
  ELSE IF Len(s0.remaining) = 0
  THEN LET s1 == SetDirection(s0, t, "inactive") IN
       [s1 EXCEPT !.map = SelectSeq(@, LAMBDA e : e.v # t)]
  ELSE s0

\* the loop over the existing video transceivers; slots[j] gets index n = j
RECURSIVE UpdateExisting(_, _, _, _, _)
UpdateExisting(st, slots, j, sft, groupOf) ==
  IF j > Len(slots) THEN st
  ELSE UpdateExisting(UpdateOneTransceiver(st, slots[j], j, sft, groupOf),
                      slots, j + 1, sft, groupOf)

\* peer.addTransceiver(kind, {direction}): appended, its mid is its position
AddTransceiver(trs, kind, direction) ==
  Append(trs, [kind |-> kind, direction |-> direction])

\* CreateRemaining that binds each created transceiver without pushing its
\* stream id to videoSubscriptions
RECURSIVE CreateRemaining_NoPush(_, _)
CreateRemaining_NoPush(st, i) ==
  IF i > Len(st.remaining) THEN st
  ELSE LET index == st.remaining[i]
           trs2 == AddTransceiver(st.trs, "video", "recvonly") IN
       CreateRemaining_NoPush([st EXCEPT !.trs = trs2,
                                         !.map = MapSet(@, index, Len(trs2))],
                              i + 1)

\* CreateRemaining that adds each transceiver with direction 'inactive'
RECURSIVE CreateRemaining_Inactive(_, _)
CreateRemaining_Inactive(st, i) ==
  IF i > Len(st.remaining) THEN st
  ELSE LET index == st.remaining[i]
           trs2 == AddTransceiver(st.trs, "video", "inactive") IN
       CreateRemaining_Inactive([st EXCEPT !.trs = trs2,
                                           !.map = MapSet(@, index, Len(trs2)),
                                           !.subs = Append(@, index)],
                                i + 1)

\* "create new transceivers for the remaining videos"
RECURSIVE CreateRemaining(_, _)
CreateRemaining(st, i) ==
  IF i > Len(st.remaining) THEN st
  ELSE LET index == st.remaining[i]
           trs2 == AddTransceiver(st.trs, "video", "recvonly") IN
       CreateRemaining([st EXCEPT !.trs = trs2,
                                  !.map = MapSet(@, index, Len(trs2)),
                                  !.subs = Append(@, index)],
                       i + 1)

\* private updateTransceivers(transceivers, videoStreamIndex, videosToReceive)
updateTransceivers(st, camera, sft, groupOf) ==
  LET slots == VideoSlots(st.trs, camera)
      s1 == UpdateExisting(st, slots, 1, sft, groupOf) IN
  CreateRemaining(s1, 1)

\* the creation loop when the peer's k-th addTransceiver call throws: the
\* first k - 1 transceivers are created, bound and pushed, then the loop is left
RECURSIVE CreateRemainingThrows(_, _, _)
CreateRemainingThrows(st, i, k) ==
  IF i >= k THEN st
  ELSE LET index == st.remaining[i]
           trs2 == AddTransceiver(st.trs, "video", "recvonly") IN
       CreateRemainingThrows([st EXCEPT !.trs = trs2,
                                        !.map = MapSet(@, index, Len(trs2)),
                                        !.subs = Append(@, index)],
                             i + 1, k)

\* updateTransceivers left by the exception of the k-th addTransceiver call
updateTransceiversThrows(st, camera, sft, groupOf, k) ==
  LET slots == VideoSlots(st.trs, camera)
      s1 == UpdateExisting(st, slots, 1, sft, groupOf) IN
  CreateRemainingThrows(s1, 1, k)

\* the streams left for the creation loop once the existing slots are handled
RemainingToCreate(st, camera, sft, groupOf) ==
  UpdateExisting(st, VideoSlots(st.trs, camera), 1, sft, groupOf).remaining

\* UpdateStart without the reserved camera entry: videoSubscriptions = []
UpdateStart_NoSentinel(videosToReceive) ==
  [trs |-> transceivers,
   subs |-> <<>>,
   map |-> streamIdToTransceiver,
   remaining |-> SetArray(SetClone(videosToReceive)),
   listOf |-> "clone",
   changes |-> {}]

\* UpdateStart without line 205: the working list is the array of the
\* caller's own set
UpdateStart_NoClone(videosToReceive) ==
  [trs |-> transceivers,
   subs |-> <<0>>,
   map |-> streamIdToTransceiver,
   remaining |-> SetArray(videosToReceive),
   listOf |-> "caller",
   changes |-> {}]

\* the state updateVideoTransceivers starts from when the connection is
\* available; listOf names the set object whose array() the working list
\* videosRemaining is: the clone made at line 205
UpdateStart(videosToReceive) ==
  [trs |-> transceivers,
   subs |-> <<0>>,
   map |-> streamIdToTransceiver,
   remaining |-> SetArray(SetClone(videosToReceive)),
   listOf |-> "clone",
   changes |-> {}]

UpdateResult(videosToReceive, sft, groupOf) ==
  updateTransceivers(UpdateStart(videosToReceive), localCameraTransceiver, sft, groupOf)

\* the caller's set once the call has ended with working state r: array() may
\* hand out the set's own storage, so shift() and splice() on videosRemaining
\* reach the set the list was taken from
CallerSetAfter(videosToReceive, r) ==
  IF r.listOf = "caller" THEN r.remaining ELSE videosToReceive

\* getMidForStreamId(streamId): the mid, or 0 for undefined
getMidForStreamId(streamId) ==
  IF MapHas(streamIdToTransceiver, streamId)
  THEN streamIdToTransceiver[MapGet(streamIdToTransceiver, streamId)].v
  ELSE 0

\* ------------------------------------------------------------ call records
NoStreamIndex == [m \in Mids |-> Undefined]
NoGroups == [s \in StreamIds |-> s]

Before ==
  [transceivers |-> transceivers,
   localCameraTransceiver |-> localCameraTransceiver,
   localAudioTransceiver |-> localAudioTransceiver,
   videoSubscriptions |-> videoSubscriptions,
   streamIdToTransceiver |-> streamIdToTransceiver]

NoBefore ==
  [transceivers |-> <<>>,
   localCameraTransceiver |-> 0,
   localAudioTransceiver |-> 0,
   videoSubscriptions |-> <<>>,
   streamIdToTransceiver |-> <<>>]

\* no updateVideoTransceivers call is in progress
NoActivation ==
  [pc |-> "none", awaiting |-> FALSE, videosToReceive |-> <<>>,
   sft |-> NoStreamIndex, groupOf |-> NoGroups, slots |-> <<>>, n |-> 0,
   remaining |-> <<>>, changes |-> {}, before |-> NoBefore]

\* no call has just returned: the caller holds no result
NoCall ==
  [op |-> "none", again |-> FALSE, avail |-> FALSE, videosToReceive |-> <<>>,
   sft |-> NoStreamIndex, groupOf |-> NoGroups, result |-> <<>>, changes |-> {},
   before |-> NoBefore, first |-> <<>>, mid |-> 0, newStreamId |-> 0,
   hasTrack |-> FALSE, encodings |-> <<>>, encodingParamMap |-> <<>>,
   bitrateKbps |-> 0, newEncodings |-> <<>>, setParametersCalls |-> 0,
   value |-> "", previous |-> 0, callerSet |-> <<>>,
   replaceTrack |-> FALSE, rejects |-> FALSE, error |-> FALSE]

\* the stream index is asked only about the active video transceivers other
\* than the camera; its other answers are left undefined
StreamIndexAnswers ==
  {f \in [Mids -> StreamIds \cup {Undefined}] :
     \A m \in Mids :
       f[m] # Undefined =>
         /\ m <= Len(transceivers)
         /\ m # localCameraTransceiver
         /\ transceiverIsVideo(transceivers[m])
         /\ transceivers[m].direction # "inactive"}

\* ------------------------------------------------------ demo application
\* enum ServerSideNetworkAdaption: the members and their values
ServerSideNetworkAdaption ==
  [None |-> 0,
   EnableBandwidthProbing |-> 1,
   EnableBandwidthProbingAndRemoteVideoQualityAdaption |-> 2]

\* ServerSideNetworkAdaption.<name> as the demo application reads it: a name
\* that is no member of the enum object reads as undefined
EnumMember(name) ==
  IF name \in DOMAIN ServerSideNetworkAdaption
  THEN ServerSideNetworkAdaption[name]
  ELSE Undefined

\* the presets of VideoPriorityBasedPolicyConfig the demo application uses
Presets == {"Default", "StableNetworkPreset", "UnstableNetworkPreset"}

\* the values of the 'server-side-network-adaption' drop down
DropDownValues ==
  {"default", "none", "enable-bandwidth-probing",
   "enable-bandwidth-probing-and-remote-video-quality-adaption"}

\* ----------------------------------------------------------------- actions
\* The controller as constructed, and the demo application before any input;
\* every preset of VideoPriorityBasedPolicyConfig starts with no server-side
\* feature enabled.
Init ==
  /\ peer = FALSE
  /\ unifiedPlan \in BOOLEAN
  /\ getTransceivers \in BOOLEAN
  /\ mediaStream \in BOOLEAN
  /\ pending = {}
  /\ transceivers = <<>>
  /\ localCameraTransceiver = 0
  /\ localAudioTransceiver = 0
  /\ defaultMediaStream = FALSE
  /\ videoSubscriptions = <<>>
  /\ streamIdToTransceiver = <<>>
  /\ call = NoCall
  /\ largestDesired = 0
  /\ activation = NoActivation
  /\ usePriorityBasedDownlinkPolicy = FALSE
  /\ videoPriorityBasedPolicyConfig = "Default"
  /\ serverSideNetworkAdaption = [p \in Presets |-> ServerSideNetworkAdaption.None]

setPeer ==
  /\ UNCHANGED <<largestDesired, pending, appVars, activation>>
  /\ peer' = TRUE
  /\ call = NoCall
  /\ call' = NoCall
  /\ UNCHANGED <<unifiedPlan, getTransceivers, mediaStream,
                 transceivers, localCameraTransceiver,
                 localAudioTransceiver, defaultMediaStream, videoSubscriptions,
                 streamIdToTransceiver>>

\* reset that also stops every transceiver of the connection
reset_StopsTransceivers ==
  /\ UNCHANGED <<largestDesired, pending, appVars, activation>>
  /\ Len(VideoSlots(transceivers, 0)) <= MaxVideoSlots
  /\ localCameraTransceiver' = 0
  /\ localAudioTransceiver' = 0
  /\ videoSubscriptions' = <<>>
  /\ defaultMediaStream' = FALSE
  /\ peer' = FALSE
  /\ call = NoCall
  /\ call' = [NoCall EXCEPT !.op = "reset", !.before = Before]
  /\ transceivers' = SelectSeq(transceivers, LAMBDA t : t.direction = "inactive")
  /\ UNCHANGED <<unifiedPlan, getTransceivers, mediaStream, streamIdToTransceiver>>

\* reset(): the transceivers stay on the connection; a former camera
\* transceiver is from now on a video transceiver like the others
reset ==
  /\ UNCHANGED <<largestDesired, pending, appVars, activation>>
  /\ Len(VideoSlots(transceivers, 0)) <= MaxVideoSlots
  /\ localCameraTransceiver' = 0
  /\ localAudioTransceiver' = 0
  /\ videoSubscriptions' = <<>>
  /\ defaultMediaStream' = FALSE
  /\ peer' = FALSE
  /\ call = NoCall
  /\ call' = [NoCall EXCEPT !.op = "reset", !.before = Before]
  /\ UNCHANGED <<unifiedPlan, getTransceivers, mediaStream,
                 transceivers, streamIdToTransceiver>>

\* setupLocalTransceivers that adds both transceivers on every call
setupLocalTransceivers_AlwaysAdds ==
  /\ UNCHANGED <<largestDesired, pending, appVars, activation>>
  /\ call = NoCall
  /\ call' = [NoCall EXCEPT !.op = "setupLocalTransceivers",
                            !.avail = useTransceivers, !.before = Before]
  /\ IF ~useTransceivers
     THEN UNCHANGED <<peer, unifiedPlan, getTransceivers, mediaStream,
                      transceivers, localCameraTransceiver,
                      localAudioTransceiver, defaultMediaStream,
                      videoSubscriptions, streamIdToTransceiver>>
     ELSE LET trs1 == AddTransceiver(transceivers, "audio", "inactive")
              trs2 == AddTransceiver(trs1, "video", "inactive") IN
          /\ Len(trs2) <= MaxTransceivers
          /\ defaultMediaStream' = (defaultMediaStream \/ mediaStream)
          /\ localAudioTransceiver' = Len(trs1)
          /\ localCameraTransceiver' = Len(trs2)
          /\ transceivers' = trs2
          /\ UNCHANGED <<peer, unifiedPlan, getTransceivers, mediaStream,
                         videoSubscriptions, streamIdToTransceiver>>

setupLocalTransceivers ==
  /\ UNCHANGED <<largestDesired, pending, appVars, activation>>
  /\ call = NoCall
  /\ call' = [NoCall EXCEPT !.op = "setupLocalTransceivers",
                            !.avail = useTransceivers, !.before = Before]
  /\ IF ~useTransceivers
     THEN UNCHANGED <<peer, unifiedPlan, getTransceivers, mediaStream,
                      transceivers, localCameraTransceiver,
                      localAudioTransceiver, defaultMediaStream,
                      videoSubscriptions, streamIdToTransceiver>>
     ELSE LET trs1 == IF localAudioTransceiver = 0
                      THEN AddTransceiver(transceivers, "audio", "inactive")
                      ELSE transceivers
              trs2 == IF localCameraTransceiver = 0
                      THEN AddTransceiver(trs1, "video", "inactive")
                      ELSE trs1 IN
          /\ Len(trs2) <= MaxTransceivers
          /\ defaultMediaStream' = (defaultMediaStream \/ mediaStream)
          /\ localAudioTransceiver' =
               IF localAudioTransceiver = 0 THEN Len(trs1) ELSE localAudioTransceiver
          /\ localCameraTransceiver' =
               IF localCameraTransceiver = 0 THEN Len(trs2) ELSE localCameraTransceiver
          /\ transceivers' = trs2
          /\ UNCHANGED <<peer, unifiedPlan, getTransceivers, mediaStream,
                         videoSubscriptions, streamIdToTransceiver>>

\* setTransceiverInput that sets 'sendrecv' whatever the track
setTransceiverInput_AlwaysSends(t, hasTrack) ==
  IF t = 0
  THEN UNCHANGED transceivers
  ELSE transceivers' = [transceivers EXCEPT ![t].direction = "sendrecv"]

\* setTransceiverInput(transceiver, track): hasTrack is "track is not null"
setTransceiverInput(t, hasTrack) ==
  IF t = 0
  THEN UNCHANGED transceivers
  ELSE transceivers' =
         [transceivers EXCEPT ![t].direction = IF hasTrack THEN "sendrecv" ELSE "inactive"]

\* the promise of one call of setVideoInput or setAudioInput, from the call
\* to its settlement: replaceTrack is "the call reached sender.replaceTrack"
\* (line 340), which it does only with a transceiver (lines 330-332)
InputPromise(op, hasTrack, t) ==
  [op |-> op, hasTrack |-> hasTrack, replaceTrack |-> t # 0]

\* setTransceiverInput whose promise also rejects when there is no transceiver
setTransceiverInputRejects_NullThrows(replaceTrack, rejects) ==
  ~replaceTrack \/ rejects

\* the promise of setTransceiverInput(transceiver, track) rejects: only the
\* awaited sender.replaceTrack of line 340 can make it; rejects is "the
\* transport rejects a replaceTrack"
setTransceiverInputRejects(replaceTrack, rejects) == replaceTrack /\ rejects

\* setVideoInput(track) up to the promise it returns: the direction is
\* assigned in the call, the promise settles in a later turn; max bounds the
\* promises outstanding at once
setVideoInput(hasTrack, max) ==
  LET p == InputPromise("setVideoInput", hasTrack, localCameraTransceiver) IN
  /\ setTransceiverInput(localCameraTransceiver, hasTrack)
  /\ call = NoCall
  /\ p \notin pending
  /\ Cardinality(pending) < max
  /\ pending' = pending \cup {p}
  /\ call' = [NoCall EXCEPT
                !.op = "setVideoInput", !.hasTrack = hasTrack,
                !.replaceTrack = p.replaceTrack, !.before = Before]
  /\ UNCHANGED <<peer, unifiedPlan, getTransceivers, mediaStream,
                 localCameraTransceiver, localAudioTransceiver,
                 defaultMediaStream, videoSubscriptions, streamIdToTransceiver>>

\* setAudioInput(track) up to the promise it returns
setAudioInput(hasTrack, max) ==
  LET p == InputPromise("setAudioInput", hasTrack, localAudioTransceiver) IN
  /\ setTransceiverInput(localAudioTransceiver, hasTrack)
  /\ call = NoCall
  /\ p \notin pending
  /\ Cardinality(pending) < max
  /\ pending' = pending \cup {p}
  /\ call' = [NoCall EXCEPT
                !.op = "setAudioInput", !.hasTrack = hasTrack,
                !.replaceTrack = p.replaceTrack, !.before = Before]
  /\ UNCHANGED <<peer, unifiedPlan, getTransceivers, mediaStream,
                 localCameraTransceiver, localAudioTransceiver,
                 defaultMediaStream, videoSubscriptions, streamIdToTransceiver>>

\* the promise p of setVideoInput or setAudioInput settles, in a turn of its
\* own: the continuation after the await of line 340 (of lines 183 and 188
\* when no replaceTrack was made) assigns nothing
settleInput(p, rejects) ==
  /\ call = NoCall
  /\ p \in pending
  /\ pending' = pending \ {p}
  /\ call' = [NoCall EXCEPT
                !.op = IF p.op = "setVideoInput"
                       THEN "setVideoInputSettled" ELSE "setAudioInputSettled",
                !.hasTrack = p.hasTrack, !.replaceTrack = p.replaceTrack,
                !.rejects = rejects,
                !.error = setTransceiverInputRejects(p.replaceTrack, rejects),
                !.before = Before]
  /\ UNCHANGED <<peer, unifiedPlan, getTransceivers, mediaStream, transceivers,
                 localCameraTransceiver, localAudioTransceiver,
                 defaultMediaStream, videoSubscriptions, streamIdToTransceiver>>

updateVideoTransceivers(videosToReceive, sft, groupOf, again) ==
  IF ~useTransceivers
  THEN /\ call' = [NoCall EXCEPT
                     !.op = "updateVideoTransceivers",
                     !.again = again,
                     !.videosToReceive = videosToReceive,
                     !.result = SetArray(videosToReceive),
                     !.callerSet = videosToReceive,
                     !.before = Before,
                     !.first = call.result]
       /\ UNCHANGED <<peer, unifiedPlan, getTransceivers, mediaStream,
                      transceivers, localCameraTransceiver,
                      localAudioTransceiver, defaultMediaStream,
                      videoSubscriptions, streamIdToTransceiver>>
  ELSE LET r == UpdateResult(videosToReceive, sft, groupOf) IN
       /\ transceivers' = r.trs
       /\ videoSubscriptions' = r.subs
       /\ streamIdToTransceiver' = r.map
       /\ call' = [NoCall EXCEPT
                     !.op = "updateVideoTransceivers",
                     !.again = again,
                     !.avail = TRUE,
                     !.videosToReceive = videosToReceive,
                     !.sft = sft,
                     !.groupOf = groupOf,
                     !.result = r.subs,
                     !.callerSet = CallerSetAfter(videosToReceive, r),
                     !.changes = r.changes,
                     !.before = Before,
                     !.first = call.result]
       /\ UNCHANGED <<peer, unifiedPlan, getTransceivers, mediaStream,
                      localCameraTransceiver,
                      localAudioTransceiver, defaultMediaStream>>

\* updateVideoTransceivers when the peer's k-th addTransceiver call of the
\* creation loop throws: nothing catches the exception, no array is returned
updateVideoTransceiversThrows(videosToReceive, sft, groupOf, k) ==
  LET st == UpdateStart(videosToReceive)
      r == updateTransceiversThrows(st, localCameraTransceiver, sft, groupOf, k) IN
  /\ useTransceivers
  /\ k <= Len(RemainingToCreate(st, localCameraTransceiver, sft, groupOf))
  /\ transceivers' = r.trs
  /\ videoSubscriptions' = r.subs
  /\ streamIdToTransceiver' = r.map
  /\ call' = [NoCall EXCEPT
                !.op = "updateVideoTransceiversThrew",
                !.avail = TRUE,
                !.videosToReceive = videosToReceive,
                !.sft = sft,
                !.groupOf = groupOf,
                !.callerSet = CallerSetAfter(videosToReceive, r),
                !.changes = r.changes,
                !.before = Before]
  /\ UNCHANGED <<peer, unifiedPlan, getTransceivers, mediaStream,
                 localCameraTransceiver,
                 localAudioTransceiver, defaultMediaStream>>

\* setStreamIdForMid that sets the new key without deleting the old one
setStreamIdForMid_NoDelete(mid, newStreamId) ==
  /\ call = NoCall
  /\ call' = [NoCall EXCEPT !.op = "setStreamIdForMid", !.mid = mid,
                            !.newStreamId = newStreamId, !.before = Before]
  /\ IF \E i \in 1..Len(streamIdToTransceiver) : streamIdToTransceiver[i].v = mid
     THEN LET i == CHOOSE i \in 1..Len(streamIdToTransceiver) :
                     /\ streamIdToTransceiver[i].v = mid
                     /\ \A j \in 1..(i - 1) : streamIdToTransceiver[j].v # mid
              e == streamIdToTransceiver[i] IN
          streamIdToTransceiver' = MapSet(streamIdToTransceiver, newStreamId, e.v)
     ELSE UNCHANGED streamIdToTransceiver
  /\ UNCHANGED <<peer, unifiedPlan, getTransceivers, mediaStream,
                 transceivers, localCameraTransceiver,
                 localAudioTransceiver, defaultMediaStream, videoSubscriptions>>

\* setStreamIdForMid(mid, newStreamId): the first entry whose transceiver has that mid
setStreamIdForMid(mid, newStreamId) ==
  /\ call = NoCall
  /\ call' = [NoCall EXCEPT !.op = "setStreamIdForMid", !.mid = mid,
                            !.newStreamId = newStreamId, !.before = Before]
  /\ IF \E i \in 1..Len(streamIdToTransceiver) : streamIdToTransceiver[i].v = mid
     THEN LET i == CHOOSE i \in 1..Len(streamIdToTransceiver) :
                     /\ streamIdToTransceiver[i].v = mid
                     /\ \A j \in 1..(i - 1) : streamIdToTransceiver[j].v # mid
              e == streamIdToTransceiver[i] IN
          streamIdToTransceiver' =
            MapSet(MapDelete(streamIdToTransceiver, e.k), newStreamId, e.v)
     ELSE UNCHANGED streamIdToTransceiver
  /\ UNCHANGED <<peer, unifiedPlan, getTransceivers, mediaStream,
                 transceivers, localCameraTransceiver,
                 localAudioTransceiver, defaultMediaStream, videoSubscriptions>>

\* the connection holds at most MaxTransceivers transceivers, at most
\* MaxVideoSlots of them video transceivers other than the camera
WithinBounds(videosToReceive, sft, groupOf) ==
  \/ ~useTransceivers
  \/ LET r == UpdateResult(videosToReceive, sft, groupOf) IN
       /\ Len(r.trs) <= MaxTransceivers
       /\ Len(VideoSlots(r.trs, localCameraTransceiver)) <= MaxVideoSlots

\* a call from the idle session loop, with any desired set and any stream index
Update ==
  /\ UNCHANGED <<largestDesired, pending, appVars, activation>>
  /\ call = NoCall
  /\ \E videosToReceive \in VideoStreamIdSets, sft \in StreamIndexAnswers, groupOf \in GroupMaps :
       /\ WithinBounds(videosToReceive, sft, groupOf)
       /\ updateVideoTransceivers(videosToReceive, sft, groupOf, FALSE)

\* a call from the idle session loop during which addTransceiver throws
UpdateThrows ==
  /\ UNCHANGED <<largestDesired, pending, appVars, activation>>
  /\ call = NoCall
  /\ \E videosToReceive \in VideoStreamIdSets, sft \in StreamIndexAnswers, groupOf \in GroupMaps,
        k \in 1..MaxDesired :
       /\ WithinBounds(videosToReceive, sft, groupOf)
       /\ updateVideoTransceiversThrows(videosToReceive, sft, groupOf, k)

\* the stream index that resolves each slot's mid to the stream id recorded
\* for the slot in videoSubscriptions (undefined where 0 is recorded)
RecordedAnswers ==
  LET slots == VideoSlots(transceivers, localCameraTransceiver) IN
  [m \in Mids |->
     IF \E j \in 1..Len(slots) :
          /\ slots[j] = m
          /\ j + 1 <= Len(videoSubscriptions)
          /\ videoSubscriptions[j + 1] # 0
          /\ transceivers[m].direction # "inactive"
     THEN videoSubscriptions[(CHOOSE j \in 1..Len(slots) : slots[j] = m) + 1]
     ELSE Undefined]

\* the same call made again right after it returned: the same desired set,
\* the same groups, the stream index answering what the first call recorded
UpdateAgain ==
  /\ UNCHANGED <<largestDesired, pending, appVars, activation>>
  /\ call.op = "updateVideoTransceivers"
  /\ ~call.again
  /\ WithinBounds(call.videosToReceive, RecordedAnswers, call.groupOf)
  /\ updateVideoTransceivers(call.videosToReceive, RecordedAnswers, call.groupOf, TRUE)

\* the caller empties the array it was given (result.length = 0). With the
\* connection available that array is this.videoSubscriptions itself (line
\* 211); otherwise it is the array videosToReceive.array() built (line 197)
CallerMutatesResult ==
  /\ UNCHANGED <<largestDesired, pending, appVars, activation>>
  /\ call.op = "updateVideoTransceivers"
  /\ call.result # <<>>
  /\ call' = [call EXCEPT !.op = "callerMutation", !.result = <<>>]
  /\ videoSubscriptions' = IF call.avail THEN <<>> ELSE videoSubscriptions
  /\ UNCHANGED <<peer, unifiedPlan, getTransceivers, mediaStream,
                 transceivers, localCameraTransceiver,
                 localAudioTransceiver, defaultMediaStream, streamIdToTransceiver>>

\* the caller has taken the returned array; the session loop is idle again
Idle ==
  /\ UNCHANGED <<largestDesired, pending, appVars, activation>>
  /\ call # NoCall
  /\ call' = NoCall
  /\ UNCHANGED <<peer, unifiedPlan, getTransceivers, mediaStream,
                 transceivers, localCameraTransceiver,
                 localAudioTransceiver, defaultMediaStream, videoSubscriptions,
                 streamIdToTransceiver>>

SetVideoInput ==
  /\ UNCHANGED <<largestDesired, appVars, activation>>
  /\ \E hasTrack \in BOOLEAN : setVideoInput(hasTrack, MaxPending)

\* a promise of setVideoInput settles
SettleVideoInput ==
  /\ UNCHANGED <<largestDesired, appVars, activation>>
  /\ \E p \in pending, rejects \in BOOLEAN :
       p.op = "setVideoInput" /\ settleInput(p, rejects)

SetStreamIdForMid ==
  /\ UNCHANGED <<largestDesired, pending, appVars, activation>>
  /\ \E mid \in Mids, newStreamId \in StreamIds : setStreamIdForMid(mid, newStreamId)

Next ==
  \/ setPeer
  \/ reset
  \/ setupLocalTransceivers
  \/ SetVideoInput
  \/ SettleVideoInput
  \/ Update
  \/ UpdateThrows
  \/ UpdateAgain
  \/ CallerMutatesResult
  \/ Idle
  \/ SetStreamIdForMid

Spec == Init /\ [][Next]_vars

\* ------------------------------------------- three unrelated streams
\* the session loop alone on one connection: setPeer, then calls whose
\* desired sets are drawn from three streams, each alone in its group
FifoStreamIds == 1..MaxFifoStreamId

RECURSIVE FifoSeqsUpTo(_)
FifoSeqsUpTo(n) ==
  IF n = 0 THEN {<<>>}
  ELSE LET shorter == FifoSeqsUpTo(n - 1) IN
       shorter \cup {Append(s, x) : s \in {q \in shorter : Len(q) = n - 1}, x \in FifoStreamIds}

FifoVideoStreamIdSets ==
  {s \in FifoSeqsUpTo(MaxFifoDesired) : \A i, j \in 1..Len(s) : i # j => s[i] # s[j]}

FifoGroups == [s \in FifoStreamIds |-> s]

\* the stream index resolves the mid of each active slot to the stream that
\* streamIdToTransceiver binds to its transceiver (the first such entry)
BoundAnswers ==
  [m \in Mids |->
     IF /\ m <= Len(transceivers)
        /\ m # localCameraTransceiver
        /\ transceiverIsVideo(transceivers[m])
        /\ transceivers[m].direction # "inactive"
        /\ m \in MapValues(streamIdToTransceiver)
     THEN LET i == CHOOSE i \in 1..Len(streamIdToTransceiver) :
                     /\ streamIdToTransceiver[i].v = m
                     /\ \A j \in 1..(i - 1) : streamIdToTransceiver[j].v # m
          IN streamIdToTransceiver[i].k
     ELSE Undefined]

FifoUpdate ==
  /\ call = NoCall
  /\ UNCHANGED <<pending, appVars, activation>>
  /\ \E videosToReceive \in FifoVideoStreamIdSets :
       /\ \/ ~useTransceivers
          \/ Len(UpdateResult(videosToReceive, BoundAnswers, FifoGroups).trs) <= MaxTransceivers
       /\ updateVideoTransceivers(videosToReceive, BoundAnswers, FifoGroups, FALSE)
       /\ largestDesired' = IF Len(videosToReceive) > largestDesired
                            THEN Len(videosToReceive) ELSE largestDesired

NextFifo ==
  \/ setPeer
  \/ FifoUpdate
  \/ Idle

SpecFifo == Init /\ [][NextFifo]_vars

\* ------------------------------------------------ local camera encodings
\* an encoding layer (RTCRtpEncodingParameters): a key the object does not
\* have is Undefined; rids are numbered
SenderLayers ==
  [rid : {Undefined, 1}, codecPayloadType : {Undefined, 96},
   maxBitrate : {Undefined, 100}, scaleResolutionDownBy : {Undefined}]

\* a layer of the caller's encodingParamMap
PatchLayers ==
  [rid : {Undefined, 1, 2}, codecPayloadType : {Undefined, 97},
   maxBitrate : {Undefined, 200, 300}, scaleResolutionDownBy : {Undefined, 4}]

RECURSIVE LayerSeqs(_, _)
LayerSeqs(layers, n) ==
  IF n = 0 THEN {<<>>}
  ELSE LET shorter == LayerSeqs(layers, n - 1) IN
       shorter \cup {Append(s, x) : s \in {q \in shorter : Len(q) = n - 1}, x \in layers}

\* what sender.getParameters().encodings can hold
SenderEncodings == LayerSeqs(SenderLayers, MaxLayers)

\* Array.from(encodingParamMap.values()), in map order
EncodingParamMaps == LayerSeqs(PatchLayers, MaxLayers)

\* the layer sender.getParameters() has after "param.encodings = [{}]"
EmptyLayer ==
  [rid |-> Undefined, codecPayloadType |-> Undefined,
   maxBitrate |-> Undefined, scaleResolutionDownBy |-> Undefined]

\* RidMatches that lets every patch layer through
RidMatches_Always(existing, changed) == TRUE

\* the test that does not "continue": no rid on either side, or equal rids
RidMatches(existing, changed) ==
  ~((existing.rid # Undefined \/ changed.rid # Undefined) /\ existing.rid # changed.rid)

\* CopyChanged without the "continue" for rid and codecPayloadType
CopyChanged_AllKeys(existing, changed) ==
  [existing EXCEPT
     !.rid = IF changed.rid # Undefined THEN changed.rid ELSE @,
     !.codecPayloadType =
        IF changed.codecPayloadType # Undefined THEN changed.codecPayloadType ELSE @,
     !.maxBitrate = IF changed.maxBitrate # Undefined THEN changed.maxBitrate ELSE @,
     !.scaleResolutionDownBy =
        IF changed.scaleResolutionDownBy # Undefined THEN changed.scaleResolutionDownBy ELSE @]

\* "for (key in changed)": every key of changed but rid and codecPayloadType
CopyChanged(existing, changed) ==
  [existing EXCEPT
     !.maxBitrate = IF changed.maxBitrate # Undefined THEN changed.maxBitrate ELSE @,
     !.scaleResolutionDownBy =
        IF changed.scaleResolutionDownBy # Undefined THEN changed.scaleResolutionDownBy ELSE @]

\* "for (const changed of newEncodingParams)" on one existing layer
RECURSIVE MergeLayer(_, _, _)
MergeLayer(existing, newEncodingParams, i) ==
  IF i > Len(newEncodingParams) THEN existing
  ELSE MergeLayer(IF RidMatches(existing, newEncodingParams[i])
                  THEN CopyChanged(existing, newEncodingParams[i])
                  ELSE existing,
                  newEncodingParams, i + 1)

\* "for (const existing of oldParam.encodings)"
RECURSIVE MergeLayers(_, _, _)
MergeLayers(encodings, newEncodingParams, i) ==
  IF i > Len(encodings) THEN <<>>
  ELSE <<MergeLayer(encodings[i], newEncodingParams, 1)>>
         \o MergeLayers(encodings, newEncodingParams, i + 1)

\* oldParam.encodings as handed to sender.setParameters
MergeEncodings(encodings, newEncodingParams) ==
  IF Len(encodings) = 0
  THEN newEncodingParams
  ELSE MergeLayers(encodings, newEncodingParams, 1)

\* hasVideoInput that asks only for a camera transceiver, not for its direction
hasVideoInput_AnyDirection == localCameraTransceiver # 0

\* the guard at the head of setEncodingParameters, setVideoSendingBitrateKbps
\* and hasVideoInput
hasVideoInput ==
  /\ localCameraTransceiver # 0
  /\ transceivers[localCameraTransceiver].direction = "sendrecv"

controllerVars ==
  <<peer, unifiedPlan, getTransceivers, mediaStream,
    transceivers, localCameraTransceiver, localAudioTransceiver,
    defaultMediaStream, videoSubscriptions, streamIdToTransceiver>>

\* setEncodingParameters(encodingParamMap) while the camera sender's
\* getParameters() returns encodings
setEncodingParameters(encodings, encodingParamMap) ==
  LET sent == hasVideoInput /\ Len(encodingParamMap) # 0 IN
  /\ call' = [NoCall EXCEPT
                !.op = "setEncodingParameters",
                !.encodings = encodings,
                !.encodingParamMap = encodingParamMap,
                !.newEncodings = IF sent THEN MergeEncodings(encodings, encodingParamMap)
                                 ELSE encodings,
                !.setParametersCalls = IF sent THEN 1 ELSE 0,
                !.before = Before]
  /\ UNCHANGED controllerVars

\* "for (const encodeParam of param.encodings) encodeParam.maxBitrate = ..."
RECURSIVE SetMaxBitrate(_, _, _)
SetMaxBitrate(encodings, maxBitrate, i) ==
  IF i > Len(encodings) THEN <<>>
  ELSE <<[encodings[i] EXCEPT !.maxBitrate = maxBitrate]>>
         \o SetMaxBitrate(encodings, maxBitrate, i + 1)

\* setVideoSendingBitrateKbps(bitrateKbps) while the camera sender's
\* getParameters() has the given encodings, or none when hasEncodings is false
setVideoSendingBitrateKbps(hasEncodings, encodings, bitrateKbps) ==
  LET sent == hasVideoInput /\ bitrateKbps > 0
      params == IF hasEncodings THEN encodings ELSE <<EmptyLayer>> IN
  /\ call' = [NoCall EXCEPT
                !.op = "setVideoSendingBitrateKbps",
                !.encodings = encodings,
                !.bitrateKbps = bitrateKbps,
                !.newEncodings = IF sent THEN SetMaxBitrate(params, bitrateKbps * 1000, 1)
                                 ELSE encodings,
                !.setParametersCalls = IF sent THEN 1 ELSE 0,
                !.before = Before]
  /\ UNCHANGED controllerVars

SetEncodingParameters ==
  /\ UNCHANGED <<largestDesired, pending, appVars, activation>>
  /\ call = NoCall
  /\ \E encodings \in SenderEncodings, encodingParamMap \in EncodingParamMaps :
       setEncodingParameters(encodings, encodingParamMap)

SetVideoSendingBitrateKbps ==
  /\ UNCHANGED <<largestDesired, pending, appVars, activation>>
  /\ call = NoCall
  /\ \E hasEncodings \in BOOLEAN, encodings \in SenderEncodings,
        bitrateKbps \in 0..MaxBitrateKbps :
       /\ ~hasEncodings => encodings = <<>>
       /\ setVideoSendingBitrateKbps(hasEncodings, encodings, bitrateKbps)

NextEncoding ==
  \/ setPeer
  \/ setupLocalTransceivers
  \/ SetVideoInput
  \/ SettleVideoInput
  \/ SetEncodingParameters
  \/ SetVideoSendingBitrateKbps
  \/ Idle

SpecEncoding == Init /\ [][NextEncoding]_vars

\* ------------------------------------------------------ local input calls
\* setVideoInput called while earlier promises of the local inputs may be
\* outstanding
SetVideoInputOverlapping ==
  /\ UNCHANGED <<largestDesired, appVars, activation>>
  /\ \E hasTrack \in BOOLEAN : setVideoInput(hasTrack, MaxInputPending)

SetAudioInput ==
  /\ UNCHANGED <<largestDesired, appVars, activation>>
  /\ \E hasTrack \in BOOLEAN : setAudioInput(hasTrack, MaxInputPending)

\* a promise of setAudioInput settles
SettleAudioInput ==
  /\ UNCHANGED <<largestDesired, appVars, activation>>
  /\ \E p \in pending, rejects \in BOOLEAN :
       p.op = "setAudioInput" /\ settleInput(p, rejects)

NextInput ==
  \/ setPeer
  \/ reset
  \/ setupLocalTransceivers
  \/ SetVideoInputOverlapping
  \/ SetAudioInput
  \/ SettleVideoInput
  \/ SettleAudioInput
  \/ Idle

SpecInput == Init /\ [][NextInput]_vars

\* ------------------------------------------------ demo application steps
\* the 'change' listener of the 'priority-downlink-policy' check box
priorityDownlinkPolicyChanged(checked) ==
  /\ call = NoCall
  /\ usePriorityBasedDownlinkPolicy' = checked
  /\ UNCHANGED <<controllerVars, call, largestDesired, pending, activation,
                 videoPriorityBasedPolicyConfig, serverSideNetworkAdaption>>

\* the 'change' listener of the 'priority-downlink-policy-preset' drop down
presetChanged(value) ==
  /\ call = NoCall
  /\ videoPriorityBasedPolicyConfig' =
       CASE value = "stable" -> "StableNetworkPreset"
         [] value = "unstable" -> "UnstableNetworkPreset"
         [] value = "default" -> "Default"
         [] OTHER -> videoPriorityBasedPolicyConfig
  /\ UNCHANGED <<controllerVars, call, largestDesired, pending, activation,
                 usePriorityBasedDownlinkPolicy, serverSideNetworkAdaption>>

\* the switch of initializeMeetingSession on the drop down's value: it has
\* no default case
SelectedAdaption(value, previous) ==
  CASE value = "default" -> EnumMember("Default")
    [] value = "none" -> EnumMember("None")
    [] value = "enable-bandwidth-probing" -> EnumMember("BandwidthProbing")
    [] OTHER -> previous

\* initializeMeetingSession, as far as the adaption mode goes
initializeMeetingSession(value) ==
  LET previous == serverSideNetworkAdaption[videoPriorityBasedPolicyConfig] IN
  /\ call = NoCall
  /\ serverSideNetworkAdaption' =
       IF usePriorityBasedDownlinkPolicy
       THEN [serverSideNetworkAdaption EXCEPT
               ![videoPriorityBasedPolicyConfig] = SelectedAdaption(value, previous)]
       ELSE serverSideNetworkAdaption
  /\ call' = [NoCall EXCEPT !.op = "initializeMeetingSession", !.value = value,
                            !.previous = previous]
  /\ UNCHANGED <<controllerVars, largestDesired, pending, activation,
                 usePriorityBasedDownlinkPolicy,
                 videoPriorityBasedPolicyConfig>>

PriorityDownlinkPolicyChanged == \E checked \in BOOLEAN : priorityDownlinkPolicyChanged(checked)

PresetChanged == \E value \in {"stable", "unstable", "default"} : presetChanged(value)

InitializeMeetingSession == \E value \in DropDownValues : initializeMeetingSession(value)

NextDemo ==
  \/ PriorityDownlinkPolicyChanged
  \/ PresetChanged
  \/ InitializeMeetingSession
  \/ Idle

SpecDemo == Init /\ [][NextDemo]_vars

\* ------------------------------------- updateVideoTransceivers step by step
\* The call of lines 192-287 taken one bookkeeping step at a time: the
\* assignments of lines 203-224, one iteration of the loop of lines 229-272
\* per step, the creation loop of lines 275-286, and the return of line 211.
\* activation holds the call's position and locals; awaiting says that the
\* call is suspended at an await, which the two functions do not contain.

\* another task of the event loop may start: no synchronous call is running
CanRun == activation.pc = "none" \/ activation.awaiting

\* the working state of updateTransceivers at the call's position
Working ==
  [trs |-> transceivers,
   subs |-> videoSubscriptions,
   map |-> streamIdToTransceiver,
   remaining |-> activation.remaining,
   listOf |-> "clone",
   changes |-> activation.changes]

\* lines 192-224: the unavailable branch returns at once; otherwise the array
\* is reset to [0], the set is cloned and the transceivers are filtered
BeginUpdate ==
  /\ call = NoCall
  /\ activation.pc = "none"
  /\ UNCHANGED <<largestDesired, pending, appVars>>
  /\ \E videosToReceive \in VideoStreamIdSets, sft \in StreamIndexAnswers, groupOf \in GroupMaps :
       /\ WithinBounds(videosToReceive, sft, groupOf)
       /\ IF ~useTransceivers
          THEN /\ updateVideoTransceivers(videosToReceive, sft, groupOf, FALSE)
               /\ UNCHANGED activation
          ELSE LET st == UpdateStart(videosToReceive)
                   slots == VideoSlots(transceivers, localCameraTransceiver) IN
               /\ videoSubscriptions' = st.subs
               /\ activation' = [NoActivation EXCEPT
                                   !.pc = IF Len(slots) > 0 THEN "slots" ELSE "create",
                                   !.videosToReceive = videosToReceive,
                                   !.sft = sft,
                                   !.groupOf = groupOf,
                                   !.slots = slots,
                                   !.n = 1,
                                   !.remaining = st.remaining,
                                   !.before = Before]
               /\ UNCHANGED <<peer, unifiedPlan, getTransceivers, mediaStream,
                              transceivers, localCameraTransceiver,
                              localAudioTransceiver, defaultMediaStream,
                              streamIdToTransceiver, call>>

\* one iteration of the loop that suspends at an await before the next one
SlotStep_Awaits ==
  LET r == UpdateOneTransceiver(Working, activation.slots[activation.n], activation.n,
                                activation.sft, activation.groupOf) IN
  /\ activation.pc = "slots"
  /\ transceivers' = r.trs
  /\ videoSubscriptions' = r.subs
  /\ streamIdToTransceiver' = r.map
  /\ activation' = [activation EXCEPT
                      !.pc = IF activation.n < Len(activation.slots) THEN "slots" ELSE "create",
                      !.awaiting = TRUE,
                      !.n = @ + 1,
                      !.remaining = r.remaining,
                      !.changes = r.changes]
  /\ UNCHANGED <<peer, unifiedPlan, getTransceivers, mediaStream,
                 localCameraTransceiver, localAudioTransceiver,
                 defaultMediaStream, call, largestDesired, pending, appVars>>

\* lines 229-272: one iteration of the loop over the existing video transceivers
SlotStep ==
  LET r == UpdateOneTransceiver(Working, activation.slots[activation.n], activation.n,
                                activation.sft, activation.groupOf) IN
  /\ activation.pc = "slots"
  /\ transceivers' = r.trs
  /\ videoSubscriptions' = r.subs
  /\ streamIdToTransceiver' = r.map
  /\ activation' = [activation EXCEPT
                      !.pc = IF activation.n < Len(activation.slots) THEN "slots" ELSE "create",
                      !.awaiting = FALSE,
                      !.n = @ + 1,
                      !.remaining = r.remaining,
                      !.changes = r.changes]
  /\ UNCHANGED <<peer, unifiedPlan, getTransceivers, mediaStream,
                 localCameraTransceiver, localAudioTransceiver,
                 defaultMediaStream, call, largestDesired, pending, appVars>>

\* lines 275-286: the creation loop
CreateStep ==
  LET r == CreateRemaining(Working, 1) IN
  /\ activation.pc = "create"
  /\ transceivers' = r.trs
  /\ videoSubscriptions' = r.subs
  /\ streamIdToTransceiver' = r.map
  /\ activation' = [activation EXCEPT !.pc = "return", !.awaiting = FALSE]
  /\ UNCHANGED <<peer, unifiedPlan, getTransceivers, mediaStream,
                 localCameraTransceiver, localAudioTransceiver,
                 defaultMediaStream, call, largestDesired, pending, appVars>>

\* line 211: return this.videoSubscriptions
ReturnStep ==
  /\ activation.pc = "return"
  /\ activation' = NoActivation
  /\ call' = [NoCall EXCEPT
                !.op = "updateVideoTransceivers",
                !.avail = TRUE,
                !.videosToReceive = activation.videosToReceive,
                !.sft = activation.sft,
                !.groupOf = activation.groupOf,
                !.result = videoSubscriptions,
                !.callerSet = activation.videosToReceive,
                !.changes = activation.changes,
                !.before = activation.before]
  /\ UNCHANGED <<controllerVars, largestDesired, pending, appVars>>

\* the steps of the call, and the other operations of the controller, each a
\* task of its own
NextSteps ==
  \/ BeginUpdate
  \/ SlotStep
  \/ CreateStep
  \/ ReturnStep
  \/ CanRun /\ setPeer
  \/ CanRun /\ reset
  \/ CanRun /\ setupLocalTransceivers
  \/ CanRun /\ SetVideoInput
  \/ CanRun /\ SettleVideoInput
  \/ CanRun /\ SetStreamIdForMid
  \/ CanRun /\ Idle

SpecSteps == Init /\ [][NextSteps]_vars

\* ================================================================= claims
\* an updateVideoTransceivers call has just returned
Returned == call.op = "updateVideoTransceivers"

\* ... and the connection was available (useTransceivers() was true)
ReturnedAvail == Returned /\ call.avail

\* the desired set of the call
Desired == Range(call.videosToReceive)

\* how often x occurs in the array s
Count(s, x) == Cardinality({i \in 1..Len(s) : s[i] = x})

\* the video slots the call found, and those it left (the created ones included)
SlotsBefore == VideoSlots(call.before.transceivers, call.before.localCameraTransceiver)
SlotsAfter == VideoSlots(transceivers, localCameraTransceiver)

\* the direction slot t had when the call started
DirectionBefore(t) == call.before.transceivers[t].direction

\* the number of transceivers the call created
Created == Len(transceivers) - Len(call.before.transceivers)

\* C1: Completeness - after a call with the connection available, each
\* stream id of the desired set appears exactly once in the returned array.
C1_Completeness ==
  ReturnedAvail => \A s \in Desired : Count(call.result, s) = 1

\* C1 happens: two streams were desired while one slot was active with a
\* resolved stream and another slot was inactive.
C1_Witness ==
  /\ ReturnedAvail
  /\ Len(call.videosToReceive) = 2
  /\ \E a, b \in Range(SlotsBefore) :
       /\ DirectionBefore(a) # "inactive"
       /\ call.sft[a] # Undefined
       /\ DirectionBefore(b) = "inactive"

\* C2 as stated: after every call, in any controller state, element 0 of the
\* returned array is present and holds no receive stream id.
C2_SentinelAnyState ==
  Returned => Len(call.result) >= 1 /\ call.result[1] \notin StreamIds

\* C2 amended: after every call made with the connection available, element
\* 0 of the returned array is present and is 0.
C2_SentinelWhenAvailable ==
  ReturnedAvail => Len(call.result) >= 1 /\ call.result[1] = 0

\* C2 happens: a call with the connection available and a local camera that
\* is sending, and a stream was desired.
C2_Witness ==
  /\ ReturnedAvail
  /\ call.videosToReceive # <<>>
  /\ localCameraTransceiver # 0
  /\ transceivers[localCameraTransceiver].direction = "sendrecv"

\* C3: No orphan bindings - after a call with the connection available,
\* every key of streamIdToTransceiver is a member of the desired set.
C3_NoOrphanBindings ==
  ReturnedAvail => MapKeys(streamIdToTransceiver) \subseteq Desired

\* C4: Idempotence - the same call made again (same desired set, the stream
\* index resolving each slot to what the first call recorded) returns the
\* same array, leaves every direction as it was and creates no transceiver.
C4_Idempotence ==
  (ReturnedAvail /\ call.again) =>
    /\ call.result = call.first
    /\ Created = 0
    /\ \A t \in 1..Len(call.before.transceivers) :
         transceivers[t].direction = DirectionBefore(t)

\* C5: Minimal churn - an active slot whose mid resolves to x, while the
\* desired set holds exactly one stream y of x's group and not x itself (and
\* no other slot resolves to that group), carries y at its position with
\* direction recvonly after the call.
C5_MinimalChurn ==
  ReturnedAvail =>
    \A j \in 1..Len(SlotsBefore) :
      LET t == SlotsBefore[j]
          x == call.sft[t]
      IN (/\ DirectionBefore(t) # "inactive"
          /\ x # Undefined
          /\ x \notin Desired
          /\ \A u \in Range(SlotsBefore) \ {t} :
               call.sft[u] = Undefined
               \/ ~StreamIdsInSameGroup(call.groupOf, call.sft[u], x))
         => \A y \in Desired :
              (/\ StreamIdsInSameGroup(call.groupOf, x, y)
               /\ \A z \in Desired \ {y} : ~StreamIdsInSameGroup(call.groupOf, x, z))
              => /\ call.result[j + 1] = y
                 /\ Count(call.result, y) = 1
                 /\ transceivers[t].direction = "recvonly"

\* C6: Empty desired set - after a call with an empty desired set, every
\* video slot is inactive, has 0 at its position and has no binding left.
C6_EmptyDesired ==
  (ReturnedAvail /\ call.videosToReceive = <<>>) =>
    \A j \in 1..Len(SlotsAfter) :
      /\ transceivers[SlotsAfter[j]].direction = "inactive"
      /\ call.result[j + 1] = 0
      /\ SlotsAfter[j] \notin MapValues(streamIdToTransceiver)

\* C7: Zero means inactive - after a call, every video slot whose position
\* in the returned array holds 0 has direction inactive.
C7_ZeroMeansInactive ==
  ReturnedAvail =>
    \A j \in 1..Len(SlotsAfter) :
      call.result[j + 1] = 0 => transceivers[SlotsAfter[j]].direction = "inactive"

\* C8: Bound implies active - after a call, every transceiver that is a
\* value of streamIdToTransceiver has a direction other than inactive.
C8_BoundImpliesActive ==
  ReturnedAvail =>
    \A t \in MapValues(streamIdToTransceiver) : transceivers[t].direction # "inactive"

\* C9: No orphaned subscriptions - after a call with the connection
\* available, every nonzero entry of the returned array is a desired stream.
C9_NoOrphanedSubscriptions ==
  ReturnedAvail =>
    \A i \in 1..Len(call.result) : call.result[i] # 0 => call.result[i] \in Desired

\* C9 happens: an active slot resolved to a stream that is not desired, and
\* the returned array holds a subscription.
C9_Witness ==
  /\ ReturnedAvail
  /\ \E t \in Range(SlotsBefore) :
       /\ DirectionBefore(t) # "inactive"
       /\ call.sft[t] # Undefined
       /\ call.sft[t] \notin Desired
  /\ \E i \in 1..Len(call.result) : call.result[i] # 0

\* C10: Resolution miss - an active slot whose mid the stream index cannot
\* resolve ends the call inactive with 0 at its position.
C10_ResolutionMiss ==
  ReturnedAvail =>
    \A j \in 1..Len(SlotsBefore) :
      (DirectionBefore(SlotsBefore[j]) # "inactive" /\ call.sft[SlotsBefore[j]] = Undefined)
        => /\ transceivers[SlotsBefore[j]].direction = "inactive"
           /\ call.result[j + 1] = 0

\* a reset() call has just returned
ResetReturned == call.op = "reset"

\* C11: reset() returns the controller to its initial state - afterwards no
\* stream id that was bound before the reset resolves to a mid, and the
\* subscription array holds no entry other than the camera sentinel.
C11_ResetClearsBindings ==
  ResetReturned =>
    /\ \A s \in MapKeys(call.before.streamIdToTransceiver) : getMidForStreamId(s) = 0
    /\ \A i \in 1..Len(videoSubscriptions) : videoSubscriptions[i] = 0

\* an updateVideoTransceivers call has just been left by an exception
Threw == call.op = "updateVideoTransceiversThrew"

\* C12: Atomic failure - when addTransceiver throws during
\* updateVideoTransceivers, videoSubscriptions, streamIdToTransceiver and the
\* direction of every transceiver are the same as before the call.
C12_AtomicFailure ==
  Threw =>
    /\ videoSubscriptions = call.before.videoSubscriptions
    /\ streamIdToTransceiver = call.before.streamIdToTransceiver
    /\ \A t \in 1..Len(call.before.transceivers) :
         transceivers[t].direction = DirectionBefore(t)

\* C13: Transport unavailable - when no peer is set (before setPeer, after
\* reset) or the browser does not require unified plan, the call returns
\* exactly the desired set's array, leaves videoSubscriptions,
\* streamIdToTransceiver and every direction as they were and creates no
\* transceiver.
C13_TransportUnavailable ==
  (Returned /\ ~(peer /\ unifiedPlan)) =>
    /\ call.result = SetArray(call.videosToReceive)
    /\ videoSubscriptions = call.before.videoSubscriptions
    /\ streamIdToTransceiver = call.before.streamIdToTransceiver
    /\ transceivers = call.before.transceivers

\* C13 happens: a call after a reset, with streams desired, while the
\* connection still holds a receiving transceiver and the map a binding.
C13_Witness ==
  /\ Returned
  /\ ~peer
  /\ unifiedPlan
  /\ Len(call.videosToReceive) = 2
  /\ streamIdToTransceiver # <<>>
  /\ \E t \in 1..Len(transceivers) : transceivers[t].direction = "recvonly"

\* stream s is new to the call: in the group of no stream bound before the
\* call and of no stream an existing slot resolves to
Unrelated(s) ==
  /\ \A k \in MapKeys(call.before.streamIdToTransceiver) :
       ~StreamIdsInSameGroup(call.groupOf, k, s)
  /\ \A t \in Range(SlotsBefore) :
       call.sft[t] # Undefined => ~StreamIdsInSameGroup(call.groupOf, call.sft[t], s)

\* C14: FIFO slot reuse - when exactly two slots are inactive at the start of
\* the call and the desired set holds exactly two new, unrelated streams, the
\* earlier new stream is recorded at the lower inactive slot and the later
\* one at the higher inactive slot.
C14_FifoSlotReuse ==
  ReturnedAvail =>
    \A i1, i2 \in 1..Len(SlotsBefore), p, q \in 1..Len(call.videosToReceive) :
      (/\ i1 < i2
       /\ p < q
       /\ {j \in 1..Len(SlotsBefore) : DirectionBefore(SlotsBefore[j]) = "inactive"} = {i1, i2}
       /\ {r \in 1..Len(call.videosToReceive) : Unrelated(call.videosToReceive[r])} = {p, q})
      => /\ call.result[i1 + 1] = call.videosToReceive[p]
         /\ call.result[i2 + 1] = call.videosToReceive[q]

\* every video slot the call found was inactive
AllInactiveBefore ==
  \A t \in Range(SlotsBefore) : DirectionBefore(t) = "inactive"

Min(a, b) == IF a <= b THEN a ELSE b
Max(a, b) == IF a >= b THEN a ELSE b

\* C15: Fill then create - when all k slots are inactive and the desired set
\* is d1..dm, the call returns [0, d1, ..., dm] padded with zeros to length
\* k + 1, the first min(k, m) slots are recvonly, the others inactive, and
\* exactly max(0, m - k) transceivers are created.
C15_FillThenCreate ==
  (ReturnedAvail /\ AllInactiveBefore) =>
    LET k == Len(SlotsBefore)
        m == Len(call.videosToReceive)
    IN /\ Len(call.result) = 1 + Max(k, m)
       /\ call.result[1] = 0
       /\ \A j \in 1..m : call.result[j + 1] = call.videosToReceive[j]
       /\ \A j \in (m + 1)..k : call.result[j + 1] = 0
       /\ \A j \in 1..k :
            transceivers[SlotsBefore[j]].direction =
              IF j <= Min(k, m) THEN "recvonly" ELSE "inactive"
       /\ Created = Max(0, m - k)

\* C15 happens: two inactive slots and two desired streams, no creation.
C15_Witness ==
  /\ ReturnedAvail
  /\ AllInactiveBefore
  /\ Len(SlotsBefore) = 2
  /\ Len(call.videosToReceive) = 2
  /\ Created = 0

\* C16: Length invariant - after a call with the connection available, the
\* returned array is one longer than the number of video transceivers other
\* than the camera, those the call created included.
C16_LengthInvariant ==
  ReturnedAvail => Len(call.result) = 1 + Len(SlotsAfter)

\* C16 happens: the connection holds an audio and a camera transceiver and a
\* video slot, and the call created another transceiver.
C16_Witness ==
  /\ ReturnedAvail
  /\ localCameraTransceiver # 0
  /\ localAudioTransceiver # 0
  /\ Len(SlotsBefore) = 1
  /\ Created = 1

IsPrefix(a, b) == Len(a) <= Len(b) /\ \A i \in 1..Len(a) : a[i] = b[i]

\* C17: Position stability - as long as the controller is not reset, the
\* video slots keep their place in the enumeration (new ones are appended),
\* and a call on an available connection that has already returned an array
\* returns an array at least as long.
C17_PositionStability ==
  [][call'.op # "reset" =>
       /\ IsPrefix(VideoSlots(transceivers, localCameraTransceiver),
                   VideoSlots(transceivers', localCameraTransceiver'))
       /\ (/\ call'.op = "updateVideoTransceivers"
           /\ call'.avail
           /\ videoSubscriptions # <<>>)
          => Len(call'.result) >= Len(videoSubscriptions)]_vars

\* C17 happens: a second call on the connection found a slot receiving,
\* left it inactive and created a transceiver for another stream.
C17_Witness ==
  /\ ReturnedAvail
  /\ call.before.videoSubscriptions # <<>>
  /\ Created = 1
  /\ \E t \in Range(SlotsBefore) :
       /\ DirectionBefore(t) = "recvonly"
       /\ transceivers[t].direction = "inactive"

\* C18: Snapshot return - the returned array is not the controller's own
\* videoSubscriptions: when the caller mutates the array it was given, the
\* controller's videoSubscriptions does not change.
C18_SnapshotReturn ==
  [][call'.op = "callerMutation" => videoSubscriptions' = videoSubscriptions]_vars

\* C19: reset() does not destroy or modify channels - after a reset the
\* connection holds the same transceivers, each with the direction it had.
C19_ResetKeepsTransceivers ==
  ResetReturned =>
    /\ Len(transceivers) = Len(call.before.transceivers)
    /\ \A t \in 1..Len(transceivers) :
         /\ transceivers[t].kind = call.before.transceivers[t].kind
         /\ transceivers[t].direction = DirectionBefore(t)

\* C19 happens: a reset while the camera was sending and a slot receiving.
C19_Witness ==
  /\ ResetReturned
  /\ call.before.localCameraTransceiver # 0
  /\ transceivers[call.before.localCameraTransceiver].direction = "sendrecv"
  /\ \E t \in 1..Len(transceivers) : transceivers[t].direction = "recvonly"

\* a setStreamIdForMid(call.mid, call.newStreamId) call has just returned
SetStreamIdReturned == call.op = "setStreamIdForMid"

\* the positions of the entries that were bound to the call's mid
EntriesWithMid ==
  {i \in 1..Len(call.before.streamIdToTransceiver) :
     call.before.streamIdToTransceiver[i].v = call.mid}

\* the key of the first of them
FirstKeyWithMid ==
  call.before.streamIdToTransceiver[
    CHOOSE i \in EntriesWithMid : \A j \in EntriesWithMid : i <= j].k

\* C20: setStreamIdForMid(mid, newId) is purely a map remap - with an entry
\* bound to mid, newId resolves to mid afterwards and the first such entry's
\* old key, if different, no longer resolves; without one the map is as it
\* was; transceivers and the subscription array are as they were.
C20_PureRemap ==
  SetStreamIdReturned =>
    /\ transceivers = call.before.transceivers
    /\ videoSubscriptions = call.before.videoSubscriptions
    /\ IF EntriesWithMid = {}
       THEN streamIdToTransceiver = call.before.streamIdToTransceiver
       ELSE /\ getMidForStreamId(call.newStreamId) = call.mid
            /\ FirstKeyWithMid # call.newStreamId => getMidForStreamId(FirstKeyWithMid) = 0
            /\ \A s \in MapKeys(streamIdToTransceiver) :
                 s # call.newStreamId =>
                   /\ s \in MapKeys(call.before.streamIdToTransceiver)
                   /\ getMidForStreamId(s) =
                        call.before.streamIdToTransceiver[
                          MapGet(call.before.streamIdToTransceiver, s)].v

\* C20 happens: the mid's entry was moved to a different key while another
\* stream was bound and a slot was receiving.
C20_Witness ==
  /\ SetStreamIdReturned
  /\ EntriesWithMid # {}
  /\ FirstKeyWithMid # call.newStreamId
  /\ Len(call.before.streamIdToTransceiver) = 2
  /\ \E t \in 1..Len(transceivers) : transceivers[t].direction = "recvonly"

\* a setEncodingParameters call has just settled
EncodingSet == call.op = "setEncodingParameters"

\* C21: Immutable encoding fields - when the camera sender already has an
\* encoding layer, setEncodingParameters leaves the number of layers and
\* each layer's rid and codecPayloadType as they were, whatever the patch.
C21_ImmutableFields ==
  (EncodingSet /\ Len(call.encodings) >= 1) =>
    /\ Len(call.newEncodings) = Len(call.encodings)
    /\ \A i \in 1..Len(call.encodings) :
         /\ call.newEncodings[i].rid = call.encodings[i].rid
         /\ call.newEncodings[i].codecPayloadType = call.encodings[i].codecPayloadType

\* C21 happens: the parameters were set on a sender with two layers, and a
\* patch layer with the rid of an existing layer supplied another codec
\* payload type.
C21_Witness ==
  /\ EncodingSet
  /\ call.setParametersCalls = 1
  /\ Len(call.encodings) = 2
  /\ \E i \in 1..Len(call.encodings), j \in 1..Len(call.encodingParamMap) :
       /\ call.encodings[i].rid = call.encodingParamMap[j].rid
       /\ call.encodings[i].codecPayloadType = 96
       /\ call.encodingParamMap[j].codecPayloadType = 97

\* the patch layers that apply to existing layer e: equal rids, or no rid on
\* either side
MatchingPatches(e) ==
  {j \in 1..Len(call.encodingParamMap) : call.encodingParamMap[j].rid = e.rid}

\* the last value the matching patch layers supply for a field, given the
\* positions of those that supply it
LastOf(js) == CHOOSE j \in js : \A k \in js : k <= j

\* C22: Patch matching - an existing layer takes, for each field other than
\* rid and codecPayloadType, the value of the last patch layer with its rid
\* (or with no rid, when it has none) that supplies the field, and keeps its
\* own value when no such patch layer supplies it.
C22_PatchMatching ==
  (EncodingSet /\ call.setParametersCalls = 1 /\ Len(call.encodings) >= 1) =>
    \A i \in 1..Len(call.encodings) :
      LET e == call.encodings[i]
          bitrates == {j \in MatchingPatches(e) : call.encodingParamMap[j].maxBitrate # Undefined}
          scales == {j \in MatchingPatches(e) :
                       call.encodingParamMap[j].scaleResolutionDownBy # Undefined}
      IN /\ call.newEncodings[i].maxBitrate =
              IF bitrates = {} THEN e.maxBitrate
              ELSE call.encodingParamMap[LastOf(bitrates)].maxBitrate
         /\ call.newEncodings[i].scaleResolutionDownBy =
              IF scales = {} THEN e.scaleResolutionDownBy
              ELSE call.encodingParamMap[LastOf(scales)].scaleResolutionDownBy

\* C22 happens: two patch layers with the layer's rid supplied different
\* bitrates, a layer with another rid was left alone, and a field no patch
\* supplied was kept.
C22_Witness ==
  /\ EncodingSet
  /\ call.setParametersCalls = 1
  /\ Len(call.encodings) = 2
  /\ Len(call.encodingParamMap) = 2
  /\ call.encodings[1].rid = 1
  /\ call.encodings[2].rid = Undefined
  /\ call.encodings[2].maxBitrate = 100
  /\ call.encodingParamMap[1].rid = 1
  /\ call.encodingParamMap[2].rid = 1
  /\ call.encodingParamMap[1].maxBitrate = 200
  /\ call.encodingParamMap[2].maxBitrate = 300
  /\ call.newEncodings[1].maxBitrate = 300
  /\ call.newEncodings[2].maxBitrate = 100

\* C23: setEncodingParameters and setVideoSendingBitrateKbps are no-ops
\* without a camera transceiver or when its direction is not sendrecv:
\* sender.setParameters is not called, the sender keeps its encodings and
\* the controller its state.
C23_NoOpWithoutVideoInput ==
  (/\ call.op \in {"setEncodingParameters", "setVideoSendingBitrateKbps"}
   /\ \/ localCameraTransceiver = 0
      \/ transceivers[localCameraTransceiver].direction # "sendrecv") =>
    /\ call.setParametersCalls = 0
    /\ call.newEncodings = call.encodings
    /\ transceivers = call.before.transceivers
    /\ localCameraTransceiver = call.before.localCameraTransceiver
    /\ videoSubscriptions = call.before.videoSubscriptions
    /\ streamIdToTransceiver = call.before.streamIdToTransceiver

\* C23 happens: a patch was handed in for a sender with a layer while the
\* camera transceiver existed and was inactive.
C23_Witness ==
  /\ EncodingSet
  /\ localCameraTransceiver # 0
  /\ transceivers[localCameraTransceiver].direction = "inactive"
  /\ Len(call.encodings) = 1
  /\ Len(call.encodingParamMap) = 1
  /\ call.encodingParamMap[1].rid = call.encodings[1].rid
  /\ call.encodingParamMap[1].maxBitrate = 200

\* a promise of setVideoInput that reached replaceTrack has just settled
\* while the controller has a camera transceiver
VideoInputSettled ==
  /\ call.op = "setVideoInputSettled"
  /\ call.replaceTrack
  /\ localCameraTransceiver # 0

\* C24 as stated: Local input direction - when setVideoInput(track) settles,
\* the camera direction is 'sendrecv' if its track was non-null and
\* 'inactive' if it was null.
C24_DirectionAtSettlement ==
  VideoInputSettled =>
    transceivers[localCameraTransceiver].direction =
      IF call.hasTrack THEN "sendrecv" ELSE "inactive"

\* C24: Local input direction - with the camera transceiver created, the
\* call of setVideoInput(track) itself, before its promise settles, leaves
\* the camera direction 'sendrecv' for a track and 'inactive' for null, and
\* hasVideoInput() follows the last such call since the last reset: it is
\* false at first and after a reset, takes the value of "track is not null"
\* at each setVideoInput called with a camera transceiver, and is changed by
\* nothing else, the settlement of an earlier call's promise included.
C24_LocalInputDirection ==
  /\ ~hasVideoInput
  /\ [][/\ (call'.op = "setVideoInput" /\ localCameraTransceiver # 0) =>
             /\ transceivers'[localCameraTransceiver].direction =
                  IF call'.hasTrack THEN "sendrecv" ELSE "inactive"
             /\ hasVideoInput' = call'.hasTrack
        /\ call'.op = "reset" => ~hasVideoInput'
        /\ ~(\/ call'.op = "setVideoInput" /\ localCameraTransceiver # 0
             \/ call'.op = "reset") =>
             hasVideoInput' = hasVideoInput]_vars

\* C24 happens: the promise of a setVideoInput(null) settles after a later
\* setVideoInput(track) was called, whose promise is still outstanding: the
\* camera sends, as the later call left it.
C24_Witness ==
  /\ VideoInputSettled
  /\ ~call.hasTrack
  /\ hasVideoInput
  /\ InputPromise("setVideoInput", TRUE, localCameraTransceiver) \in pending

\* initializeMeetingSession has just returned
SessionInitialized == call.op = "initializeMeetingSession"

\* the drop down values the switch of initializeMeetingSession has a case for
RecognizedValues == {"default", "none", "enable-bandwidth-probing"}

\* the adaption mode of the configuration the demo application uses
ConfiguredAdaption == serverSideNetworkAdaption[videoPriorityBasedPolicyConfig]

\* C25: when initializeMeetingSession reads a 'server-side-network-adaption'
\* value it does not recognize, the configured mode is
\* ServerSideNetworkAdaption.None afterwards, whatever was configured before.
C25_UnrecognizedModeYieldsNone ==
  (SessionInitialized /\ usePriorityBasedDownlinkPolicy
     /\ call.value \notin RecognizedValues)
    => ConfiguredAdaption = ServerSideNetworkAdaption.None

\* C26: ServerSideNetworkAdaption has exactly three values, strictly
\* increasing in declaration order, and every mode the demo application
\* stores in a configuration is one of them.
C26_ClosedEnumeration ==
  /\ Cardinality({ServerSideNetworkAdaption[n] : n \in DOMAIN ServerSideNetworkAdaption}) = 3
  /\ ServerSideNetworkAdaption.None < ServerSideNetworkAdaption.EnableBandwidthProbing
  /\ ServerSideNetworkAdaption.EnableBandwidthProbing
       < ServerSideNetworkAdaption.EnableBandwidthProbingAndRemoteVideoQualityAdaption
  /\ \A p \in Presets :
       serverSideNetworkAdaption[p]
         \in {ServerSideNetworkAdaption[n] : n \in DOMAIN ServerSideNetworkAdaption}

\* C27: Map agrees with array - after a call with the connection available,
\* every desired stream in the returned array has, by getMidForStreamId, the
\* mid of the transceiver at its position in the array.
C27_MapAgreesWithArray ==
  ReturnedAvail =>
    \A j \in 1..Len(SlotsAfter) :
      call.result[j + 1] \in Desired
        => getMidForStreamId(call.result[j + 1]) = SlotsAfter[j]

\* C28: New channel as last resort - when a call with the connection
\* available creates a transceiver, the array entry of every slot that
\* existed before the call is nonzero.
C28_CreateOnlyWhenSlotsFull ==
  (ReturnedAvail /\ Created > 0) =>
    \A j \in 1..Len(SlotsBefore) : call.result[j + 1] # 0

\* C29: Bounded slot growth - over any sequence of updateVideoTransceivers
\* calls on one connection, the number of non-camera video transceivers never
\* exceeds the largest desired-set size handed in so far.
C29_BoundedSlotGrowth ==
  Len(VideoSlots(transceivers, localCameraTransceiver)) <= largestDesired

\* C30: No transient deactivation - a slot that ends a call bound to a stream
\* with direction 'recvonly' was not set to 'inactive' at any point of that
\* call.
C30_NoTransientDeactivation ==
  ReturnedAvail =>
    \A j \in 1..Len(SlotsBefore) :
      (call.result[j + 1] # 0 /\ transceivers[SlotsBefore[j]].direction = "recvonly")
        => <<SlotsBefore[j], "inactive">> \notin call.changes

\* setupLocalTransceivers adds the audio transceiver and, right after it, the
\* camera transceiver (lines 159-171), and nothing else adds an audio
\* transceiver: the video transceiver that follows an audio transceiver on the
\* connection is one setupLocalTransceivers created as the local camera
CreatedAsCamera(t) ==
  /\ t > 1
  /\ call.before.transceivers[t].kind = "video"
  /\ call.before.transceivers[t - 1].kind = "audio"

\* C31: Camera slot stays reserved across sessions - a transceiver that
\* setupLocalTransceivers created as the local camera is not given direction
\* 'recvonly' or a nonzero subscription entry by updateVideoTransceivers,
\* also after reset() and setPeer with the same connection.
C31_CameraSlotReserved ==
  ReturnedAvail =>
    \A t \in 1..Len(call.before.transceivers) :
      CreatedAsCamera(t) =>
        /\ <<t, "recvonly">> \notin call.changes
        /\ \A j \in 1..Len(SlotsAfter) : SlotsAfter[j] = t => call.result[j + 1] = 0

\* C32: One stream per transceiver - after any sequence of
\* updateVideoTransceivers and setStreamIdForMid calls no transceiver is the
\* value of two different stream ids in streamIdToTransceiver.
C32_OneStreamPerTransceiver ==
  \A i, j \in 1..Len(streamIdToTransceiver) :
    streamIdToTransceiver[i].v = streamIdToTransceiver[j].v => i = j

\* videosRemaining as slot j of the call found it: the desired streams, in the
\* order of the array, without those taken by the slots before j
RemainingAt(j) ==
  SelectSeq(SetArray(call.videosToReceive),
            LAMBDA s : \A i \in 1..(j - 1) : call.result[i + 1] # s)

\* the positions of RemainingAt(j) whose stream is in the group of the stream
\* slot j resolves to
MatchingAt(j) ==
  {i \in 1..Len(RemainingAt(j)) :
     StreamIdsInSameGroup(call.groupOf, call.sft[SlotsBefore[j]], RemainingAt(j)[i])}

\* slot j was active when the call started and its mid resolves to a stream
ActiveResolved(j) ==
  /\ DirectionBefore(SlotsBefore[j]) # "inactive"
  /\ call.sft[SlotsBefore[j]] # Undefined

\* C33: First match wins - when the stream of an active slot is in the group
\* of several entries of the remaining list, the slot is rebound to the
\* earliest of them, and the other matching entries are left for later slots
\* or new transceivers.
C33_FirstMatchWins ==
  ReturnedAvail =>
    \A j \in 1..Len(SlotsBefore) :
      (ActiveResolved(j) /\ Cardinality(MatchingAt(j)) > 1) =>
        LET first == CHOOSE i \in MatchingAt(j) : \A x \in MatchingAt(j) : i <= x IN
        /\ call.result[j + 1] = RemainingAt(j)[first]
        /\ \A i \in MatchingAt(j) \ {first} :
             \E p \in (j + 2)..Len(call.result) : call.result[p] = RemainingAt(j)[i]

\* a slot receiving stream 1 found two desired streams of its group, the
\* other one first, and was rebound to that one
C33_Witness ==
  /\ ReturnedAvail
  /\ Len(SlotsBefore) >= 1
  /\ ActiveResolved(1)
  /\ Cardinality(MatchingAt(1)) = 2
  /\ call.sft[SlotsBefore[1]] = call.videosToReceive[2]
  /\ call.result[2] = call.videosToReceive[1]

\* C34: Bound slots are receiving - after a call with the connection
\* available every non-camera video slot whose array entry is nonzero has
\* direction 'recvonly', the transceivers the call created included.
C34_BoundSlotsReceive ==
  ReturnedAvail =>
    \A j \in 1..Len(SlotsAfter) :
      call.result[j + 1] # 0 => transceivers[SlotsAfter[j]].direction = "recvonly"

\* a call that bound an existing slot and created a transceiver for another
\* stream
C34_Witness ==
  /\ ReturnedAvail
  /\ Len(SlotsBefore) >= 1
  /\ Created > 0
  /\ call.result[2] # 0
  /\ call.result[Len(call.result)] # 0

\* C36: updateVideoTransceivers never modifies the caller's desired stream
\* set - the set passed in has the same members after the call as before.
C36_CallerSetUnchanged ==
  Returned => call.callerSet = call.videosToReceive

\* a call whose working list was consumed: an existing slot took a desired
\* stream and another desired stream got a new transceiver
C36_Witness ==
  /\ ReturnedAvail
  /\ Len(call.videosToReceive) = 2
  /\ Len(SlotsBefore) >= 1
  /\ call.result[2] # 0
  /\ Created = 1
  /\ call.callerSet = call.videosToReceive

\* C37: updateVideoTransceivers changes the direction only of non-camera video
\* transceivers - the current local camera transceiver and every audio
\* transceiver have the same direction after the call as before, and no
\* direction is assigned to them during the call.
C37_CameraAndAudioUntouched ==
  Returned =>
    \A t \in 1..Len(call.before.transceivers) :
      (t = call.before.localCameraTransceiver
         \/ call.before.transceivers[t].kind = "audio") =>
        /\ transceivers[t].direction = DirectionBefore(t)
        /\ \A d \in Directions : <<t, d>> \notin call.changes

\* a call that changed the direction of a slot while the local camera was
\* sending
C37_Witness ==
  /\ ReturnedAvail
  /\ call.before.localCameraTransceiver # 0
  /\ DirectionBefore(call.before.localCameraTransceiver) = "sendrecv"
  /\ call.videosToReceive # <<>>
  /\ call.changes # {}

\* setupLocalTransceivers has just returned
SetupReturned == call.op = "setupLocalTransceivers"

\* the transceivers the call added to the connection
SetupCreated ==
  SubSeq(transceivers, Len(call.before.transceivers) + 1, Len(transceivers))

\* C38: setupLocalTransceivers is idempotent between resets - with the
\* connection available a call adds the local audio transceiver and the local
\* camera transceiver only where the controller has none, each with direction
\* 'inactive', and a repeated call changes nothing; with the connection
\* unavailable it adds nothing.
C38_SetupIdempotent ==
  SetupReturned =>
    /\ SubSeq(transceivers, 1, Len(call.before.transceivers)) = call.before.transceivers
    /\ videoSubscriptions = call.before.videoSubscriptions
    /\ streamIdToTransceiver = call.before.streamIdToTransceiver
    /\ \A i \in 1..Len(SetupCreated) : SetupCreated[i].direction = "inactive"
    /\ Len(SelectSeq(SetupCreated, LAMBDA t : t.kind = "audio"))
         = IF call.avail /\ call.before.localAudioTransceiver = 0 THEN 1 ELSE 0
    /\ Len(SelectSeq(SetupCreated, LAMBDA t : t.kind = "video"))
         = IF call.avail /\ call.before.localCameraTransceiver = 0 THEN 1 ELSE 0
    /\ call.before.localAudioTransceiver # 0
         => localAudioTransceiver = call.before.localAudioTransceiver
    /\ call.before.localCameraTransceiver # 0
         => localCameraTransceiver = call.before.localCameraTransceiver
    /\ ~call.avail
         => /\ localAudioTransceiver = call.before.localAudioTransceiver
            /\ localCameraTransceiver = call.before.localCameraTransceiver

\* a repeated call with the connection available: both local transceivers
\* existed, the camera was sending
C38_Witness ==
  /\ SetupReturned
  /\ call.avail
  /\ call.before.localAudioTransceiver # 0
  /\ call.before.localCameraTransceiver # 0
  /\ transceivers[localCameraTransceiver].direction = "sendrecv"
  /\ transceivers = call.before.transceivers

\* setVideoInput or setAudioInput has just returned its promise
InputReturned == call.op \in {"setVideoInput", "setAudioInput"}

\* a promise of setVideoInput or setAudioInput has just settled
InputSettled == call.op \in {"setVideoInputSettled", "setAudioInputSettled"}

\* the local transceiver the call was about, as the call found it
InputTransceiver ==
  IF call.op = "setVideoInput"
  THEN call.before.localCameraTransceiver
  ELSE call.before.localAudioTransceiver

\* the controller's fields and the transceivers are as the step found them
SameAsBefore ==
  /\ transceivers = call.before.transceivers
  /\ localCameraTransceiver = call.before.localCameraTransceiver
  /\ localAudioTransceiver = call.before.localAudioTransceiver
  /\ videoSubscriptions = call.before.videoSubscriptions
  /\ streamIdToTransceiver = call.before.streamIdToTransceiver

\* C39: setVideoInput and setAudioInput fail only through the transport -
\* a call made without the local transceiver makes no replaceTrack and
\* changes no state, its promise resolves without error, and a promise
\* rejects exactly when the call made sender.replaceTrack and that rejected;
\* the call itself throws nothing and the settlement changes no state.
C39_InputFailsOnlyThroughTransport ==
  /\ InputReturned =>
       /\ ~call.error
       /\ call.replaceTrack = (InputTransceiver # 0)
       /\ InputTransceiver = 0 => SameAsBefore
  /\ InputSettled =>
       /\ SameAsBefore
       /\ ~call.replaceTrack => ~call.error
       /\ call.error = (call.replaceTrack /\ call.rejects)

\* the promise of a setAudioInput called before setupLocalTransceivers
\* settles while the transport would have rejected a replaceTrack: it resolves
C39_Witness ==
  /\ call.op = "setAudioInputSettled"
  /\ ~call.replaceTrack
  /\ call.rejects
  /\ ~call.error

\* what the call that has just returned leaves when nothing runs between its
\* steps: updateTransceivers applied to the state the call started from
Uninterrupted ==
  updateTransceivers(
    [trs |-> call.before.transceivers,
     subs |-> <<0>>,
     map |-> call.before.streamIdToTransceiver,
     remaining |-> SetArray(SetClone(call.videosToReceive)),
     listOf |-> "clone",
     changes |-> {}],
    call.before.localCameraTransceiver, call.sft, call.groupOf)

\* C35: Atomic reconciliation - updateVideoTransceivers has no suspension
\* point: while a call is between its first and its last bookkeeping step it
\* is never suspended and no other operation of the controller has run, and
\* the call leaves what its steps alone produce from the state it started in.
C35_AtomicReconciliation ==
  /\ activation.pc # "none" => (~activation.awaiting /\ call = NoCall)
  /\ ReturnedAvail =>
       /\ transceivers = Uninterrupted.trs
       /\ videoSubscriptions = Uninterrupted.subs
       /\ streamIdToTransceiver = Uninterrupted.map
       /\ call.result = Uninterrupted.subs

\* a call between the iterations for its first and its second slot, the
\* subscription array built up to the first slot only
C35_Witness ==
  /\ activation.pc = "slots"
  /\ activation.n = 2
  /\ Len(activation.slots) = 2
  /\ Len(videoSubscriptions) = 2
  /\ activation.remaining # <<>>

====
